---- MODULE Spec2Model ----
(***************************************************************************)
(* Model of defaults/skills/play-sound/scripts/play-sound.py.              *)
(*                                                                         *)
(* The script reads the sound type from sys.argv, reads the host system    *)
(* with platform.system(), and runs one platform strategy, each a chain of *)
(* external steps (file probes, player commands, audio API calls, a write  *)
(* of the bell character).  Every external step is one action; its outcome *)
(* is an input chosen by the environment.  The environment is one fixed    *)
(* world per behaviour: the outcome of a facility, or the existence of a   *)
(* path, is decided the first time it is observed (env, fs) and stays the  *)
(* same for later observations, also across invocations.                   *)
(***************************************************************************)
EXTENDS Integers, Sequences, FiniteSets

VARIABLES system, sys_argv, env, fs, pc, sound_type, loop, exc, trace, prev

vars == <<system, sys_argv, env, fs, pc, sound_type, loop, exc, trace, prev>>

\* Upper bound on the number of candidate sound files that exist on the host.
MaxExisting == 2

-----------------------------------------------------------------------------
(* Inputs *)

\* platform.system() values: the three recognised ones and some others
\* (another OS, a different spelling, the empty string of an unknown host).
Systems == {"Darwin", "Linux", "Windows", "FreeBSD", "darwin", ""}

\* sys.argv: the script name followed by the command-line arguments.
Script == "play-sound.py"

ArgvChoices ==
    { <<Script>>,
      <<Script, "success">>,
      <<Script, "prompt">>,
      <<Script, "unknown-garbage">>,
      <<Script, "Success">>,
      <<Script, "prompt", "success">> }

-----------------------------------------------------------------------------
(* Static tables of the strategies *)

Path(dir, file) == [dir |-> dir, file |-> file]

NoPath == Path("", "")

\* os.path.join(base_path, sound_file); every base path ends with "/", so
\* the result is the base path followed by the file name.
Join(base_path, sound_file) == Path(base_path, sound_file)

MacSoundMap ==
    [success |-> Path("/System/Library/Sounds/", "Hero.aiff"),
     prompt  |-> Path("/System/Library/Sounds/", "Blow.aiff")]

\* A plausible slip: the two assets exchanged.
MacSoundFile_swapped(st) ==
    IF st = "success" THEN MacSoundMap.prompt ELSE MacSoundMap.success

\* sound_map.get(sound_type, sound_map['prompt']) in play_sound_macos
MacSoundFile(st) ==
    IF st \in DOMAIN MacSoundMap THEN MacSoundMap[st] ELSE MacSoundMap.prompt

sound_paths ==
    << "/usr/share/sounds/freedesktop/stereo/",
       "/usr/share/sounds/ubuntu/stereo/",
       "/usr/share/sounds/gnome/default/alerts/" >>

LinuxSoundMap ==
    [success |-> <<"complete.oga", "message.oga", "glass.oga">>,
     prompt  |-> <<"dialog-warning.oga", "message-new-instant.oga", "bell.oga">>]

\* A plausible slip: an unrecognised sound type gets the 'success' list.
LinuxSounds_defaultSuccess(st) ==
    IF st \in DOMAIN LinuxSoundMap THEN LinuxSoundMap[st] ELSE LinuxSoundMap.success

\* sound_map.get(sound_type, sound_map['prompt']) in play_sound_linux
LinuxSounds(st) ==
    IF st \in DOMAIN LinuxSoundMap THEN LinuxSoundMap[st] ELSE LinuxSoundMap.prompt

\* Every path the Linux strategy can probe, for any sound type.
LinuxPaths ==
    { Join(sound_paths[b], LinuxSoundMap[t][f]) :
        b \in DOMAIN sound_paths, t \in DOMAIN LinuxSoundMap, f \in 1..3 }

\* A plausible slip: the test written for 'prompt' instead of 'success'.
Tone_testPrompt(st) ==
    IF st = "prompt" THEN <<800, 150>> ELSE <<1000, 100>>

\* The (frequency, duration) handed to winsound.Beep
Tone(st) ==
    IF st = "success" THEN <<1000, 100>> ELSE <<800, 150>>

-----------------------------------------------------------------------------
(* The environment: facilities and their outcomes *)

Executables == {"afplay", "osascript", "paplay", "aplay", "beep"}

\* The two import statements of play_sound_windows each search for the
\* module again (a failed import is not cached), so each is its own step.
Imports == {"import winsound", "import winsound (fallback)"}

ApiCalls == {"winsound.Beep", "winsound.MessageBeep"}

Facilities == Executables \cup Imports \cup ApiCalls

\* "ok": the step ran (a command was launched, whatever its exit status,
\* since check=False; an import or a call returned).
\* "missing": the executable or the module is not there.
\* "error": the step raised some other error.
Outcomes(fac) ==
    IF fac \in ApiCalls THEN {"ok", "error"} ELSE {"ok", "missing", "error"}

\* The exception a failed step raises.
Raised(fac, o) ==
    CASE o = "missing" /\ fac \in Executables -> "FileNotFoundError"
      [] o = "missing" /\ fac \in Imports     -> "ImportError"
      [] o = "error"   /\ fac \in Executables -> "PermissionError"
      [] o = "error"   /\ fac \in Imports     -> "OSError"
      [] o = "error"   /\ fac \in ApiCalls    -> "RuntimeError"
      [] OTHER                                 -> "none"

\* Subclasses of Exception among the errors the steps raise.
ExceptionClasses ==
    {"FileNotFoundError", "ImportError", "PermissionError", "OSError", "RuntimeError"}

\* The environment answers for facility fac with outcome o.
Observe(fac, o) ==
    /\ o \in Outcomes(fac)
    /\ env[fac] \in {"unknown", o}
    /\ env' = [env EXCEPT ![fac] = o]

\* os.path.exists(p) answers o.
Exists(p, o) ==
    /\ o \in {"yes", "no"}
    /\ fs[p] \in {"unknown", o}
    /\ (o = "yes" /\ fs[p] = "unknown")
          => Cardinality({q \in LinuxPaths : fs[q] = "yes"}) < MaxExisting
    /\ fs' = [fs EXCEPT ![p] = o]

-----------------------------------------------------------------------------
(* The record of what a run did *)

Event(kind, cmd, path, tone, out, result) ==
    [kind |-> kind, cmd |-> cmd, path |-> path, tone |-> tone,
     out |-> out, result |-> result]

ExistsEvent(p, o) == Event("exists", <<>>, p, <<>>, <<>>, o)

\* subprocess.run(cmd + [path]) ; the path, when there is one, is the last
\* argument of every command of the script.
RunEvent(cmd, p, o) == Event("run", cmd, p, <<>>, <<>>, o)

ImportEvent(fac, o) == Event("import", <<fac>>, NoPath, <<>>, <<>>, o)

CallEvent(fac, tone, o) == Event("call", <<fac>>, NoPath, tone, <<>>, o)

\* print(text, end=end, flush=True): the characters written to stdout.
Stdout(text, end) == Event("print", <<>>, NoPath, <<>>, text \o end, "ok")

\* A plausible slip: print's default end, a newline after the bell.
Bell_newline == Stdout(<<"BEL">>, <<"LF">>)

\* print('\a', end='', flush=True)
Bell == Stdout(<<"BEL">>, <<>>)

-----------------------------------------------------------------------------
(* Exception handlers *)

\* A plausible slip: main catching only the missing-executable error.
MainCatches_onlyFileNotFound(e) == e = "FileNotFoundError"

\* `except Exception:` in main
MainCatches(e) == e \in ExceptionClasses

\* A plausible slip: the inner handler naming ImportError like the outer one.
WindowsFallbackCatches_onlyImportError(e) == e = "ImportError"

\* the bare `except:` around the MessageBeep fallback
WindowsFallbackCatches(e) == TRUE

-----------------------------------------------------------------------------
(* Control flow helpers *)

\* A plausible slip: every unrecognised system handled as Linux.
Dispatch_elseLinux(sys) ==
    CASE sys = "Darwin"  -> "macos_afplay"
      [] sys = "Windows" -> "windows_import"
      [] OTHER           -> "linux_exists"

\* the if/elif/else of main
Dispatch(sys) ==
    CASE sys = "Darwin"  -> "macos_afplay"
      [] sys = "Linux"   -> "linux_exists"
      [] sys = "Windows" -> "windows_import"
      [] OTHER           -> "unknown_bell"

\* A plausible slip: the `return` after a launched player left out.
AfterPlayer_noReturn(player, o) ==
    CASE o = "ok"                             -> "continue"
      [] o = "missing" /\ player = "paplay"   -> "linux_aplay"
      [] o = "missing" /\ player = "aplay"    -> "continue"
      [] OTHER                                -> "raise"

\* A plausible slip: giving up on the files once both players are missing.
AfterPlayer_breakOnMissing(player, o) ==
    CASE o = "ok"                             -> "done"
      [] o = "missing" /\ player = "paplay"   -> "linux_aplay"
      [] o = "missing" /\ player = "aplay"    -> "linux_beep"
      [] OTHER                                -> "raise"

\* Where play_sound_linux goes after a player attempt on an existing file:
\* return, the aplay fallback, `pass` (on to the next candidate), or the
\* error leaves the function.
AfterPlayer(player, o) ==
    CASE o = "ok"                             -> "done"
      [] o = "missing" /\ player = "paplay"   -> "linux_aplay"
      [] o = "missing" /\ player = "aplay"    -> "continue"
      [] OTHER                                -> "raise"

\* The loop position after (b, f) in `for base_path ...: for sound_file ...:`,
\* or "end" after the last pair.
NextCandidate(l, sounds) ==
    IF l.f < Len(sounds) THEN [b |-> l.b, f |-> l.f + 1]
    ELSE IF l.b < Len(sound_paths) THEN [b |-> l.b + 1, f |-> 1]
    ELSE [b |-> 0, f |-> 0]

FirstCandidate == [b |-> 1, f |-> 1]

NoCandidate == [b |-> 0, f |-> 0]

full_path == Join(sound_paths[loop.b], LinuxSounds(sound_type)[loop.f])

\* Leave the loop body for the next candidate, or for the beep after the last.
Continue ==
    LET n == NextCandidate(loop, LinuxSounds(sound_type))
    IN  /\ loop' = n
        /\ pc' = IF n = NoCandidate THEN "linux_beep" ELSE "linux_exists"

-----------------------------------------------------------------------------
(* Initial state: the process has started, main() has not run yet *)

Init ==
    /\ system \in Systems
    /\ sys_argv \in ArgvChoices
    /\ env = [fac \in Facilities |-> "unknown"]
    /\ fs = [p \in LinuxPaths |-> "unknown"]
    /\ pc = "main"
    /\ sound_type = ""
    /\ loop = NoCandidate
    /\ exc = "none"
    /\ trace = <<>>
    /\ prev = <<>>

-----------------------------------------------------------------------------
(* main *)

\* main, lines 97-113: read the argument, read the system, dispatch.
main ==
    /\ pc = "main"
    /\ sound_type' = IF Len(sys_argv) < 2 THEN "prompt" ELSE sys_argv[2]
    /\ pc' = Dispatch(system)
    /\ loop' = IF Dispatch(system) = "linux_exists" THEN FirstCandidate ELSE NoCandidate
    /\ UNCHANGED <<system, sys_argv, env, fs, exc, trace, prev>>

\* the else branch of main: the terminal bell
unknown_bell ==
    /\ pc = "unknown_bell"
    /\ trace' = Append(trace, Bell)
    /\ pc' = "done"
    /\ UNCHANGED <<system, sys_argv, env, fs, sound_type, loop, exc, prev>>

\* An error has left the strategy: main's handler swallows it, or it
\* leaves main.
main_except ==
    /\ pc = "main_except"
    /\ IF MainCatches(exc)
         THEN pc' = "done" /\ exc' = "none"
         ELSE pc' = "crashed" /\ exc' = exc
    /\ UNCHANGED <<system, sys_argv, env, fs, sound_type, loop, trace, prev>>

-----------------------------------------------------------------------------
(* play_sound_macos *)

\* subprocess.run(['afplay', sound_file]) inside try / except FileNotFoundError
play_sound_macos_afplay ==
    /\ pc = "macos_afplay"
    /\ \E o \in Outcomes("afplay") :
          /\ Observe("afplay", o)
          /\ trace' = Append(trace, RunEvent(<<"afplay">>, MacSoundFile(sound_type), o))
          /\ CASE o = "ok"      -> pc' = "done" /\ exc' = exc
               [] o = "missing" -> pc' = "macos_osascript" /\ exc' = exc
               [] OTHER         -> pc' = "main_except" /\ exc' = Raised("afplay", o)
    /\ UNCHANGED <<system, sys_argv, fs, sound_type, loop, prev>>

\* subprocess.run(['osascript', '-e', 'beep 1']) in the except block: nothing
\* handles its errors inside play_sound_macos.
play_sound_macos_osascript ==
    /\ pc = "macos_osascript"
    /\ \E o \in Outcomes("osascript") :
          /\ Observe("osascript", o)
          /\ trace' = Append(trace, RunEvent(<<"osascript", "-e", "beep 1">>, NoPath, o))
          /\ IF o = "ok"
               THEN pc' = "done" /\ exc' = exc
               ELSE pc' = "main_except" /\ exc' = Raised("osascript", o)
    /\ UNCHANGED <<system, sys_argv, fs, sound_type, loop, prev>>

-----------------------------------------------------------------------------
(* play_sound_linux *)

\* The outcome of a player attempt on full_path.
PlayerStep(player, o) ==
    CASE AfterPlayer(player, o) = "done"        ->
            pc' = "done" /\ loop' = loop /\ exc' = exc
      [] AfterPlayer(player, o) = "linux_aplay" ->
            pc' = "linux_aplay" /\ loop' = loop /\ exc' = exc
      [] AfterPlayer(player, o) = "linux_beep"  ->
            pc' = "linux_beep" /\ loop' = NoCandidate /\ exc' = exc
      [] AfterPlayer(player, o) = "continue"    ->
            Continue /\ exc' = exc
      [] OTHER ->
            pc' = "main_except" /\ loop' = loop /\ exc' = Raised(player, o)

\* os.path.exists(full_path) for the current (base_path, sound_file)
play_sound_linux_exists ==
    /\ pc = "linux_exists"
    /\ \E o \in {"yes", "no"} :
          /\ Exists(full_path, o)
          /\ trace' = Append(trace, ExistsEvent(full_path, o))
          /\ IF o = "yes"
               THEN pc' = "linux_paplay" /\ loop' = loop
               ELSE Continue
    /\ UNCHANGED <<system, sys_argv, env, sound_type, exc, prev>>

\* subprocess.run(['paplay', full_path])
play_sound_linux_paplay ==
    /\ pc = "linux_paplay"
    /\ \E o \in Outcomes("paplay") :
          /\ Observe("paplay", o)
          /\ trace' = Append(trace, RunEvent(<<"paplay">>, full_path, o))
          /\ PlayerStep("paplay", o)
    /\ UNCHANGED <<system, sys_argv, fs, sound_type, prev>>

\* subprocess.run(['aplay', '-q', full_path])
play_sound_linux_aplay ==
    /\ pc = "linux_aplay"
    /\ \E o \in Outcomes("aplay") :
          /\ Observe("aplay", o)
          /\ trace' = Append(trace, RunEvent(<<"aplay", "-q">>, full_path, o))
          /\ PlayerStep("aplay", o)
    /\ UNCHANGED <<system, sys_argv, fs, sound_type, prev>>

\* subprocess.run(['beep', '-f', '800', '-l', '100']) after the loops
play_sound_linux_beep ==
    /\ pc = "linux_beep"
    /\ \E o \in Outcomes("beep") :
          /\ Observe("beep", o)
          /\ trace' = Append(trace, RunEvent(<<"beep", "-f", "800", "-l", "100">>, NoPath, o))
          /\ CASE o = "ok"      -> pc' = "done" /\ exc' = exc
               [] o = "missing" -> pc' = "linux_bell" /\ exc' = exc
               [] OTHER         -> pc' = "main_except" /\ exc' = Raised("beep", o)
    /\ UNCHANGED <<system, sys_argv, fs, sound_type, loop, prev>>

\* the last resort of play_sound_linux
play_sound_linux_bell ==
    /\ pc = "linux_bell"
    /\ trace' = Append(trace, Bell)
    /\ pc' = "done"
    /\ UNCHANGED <<system, sys_argv, env, fs, sound_type, loop, exc, prev>>

-----------------------------------------------------------------------------
(* play_sound_windows *)

\* `import winsound` in the try block; only ImportError is handled there.
play_sound_windows_import ==
    /\ pc = "windows_import"
    /\ \E o \in Outcomes("import winsound") :
          /\ Observe("import winsound", o)
          /\ trace' = Append(trace, ImportEvent("winsound", o))
          /\ CASE o = "ok"      -> pc' = "windows_beep" /\ exc' = exc
               [] o = "missing" -> pc' = "windows_fallback" /\ exc' = exc
               [] OTHER         -> pc' = "main_except"
                                   /\ exc' = Raised("import winsound", o)
    /\ UNCHANGED <<system, sys_argv, fs, sound_type, loop, prev>>

\* winsound.Beep(frequency, duration); its RuntimeError is no ImportError.
play_sound_windows_beep ==
    /\ pc = "windows_beep"
    /\ \E o \in Outcomes("winsound.Beep") :
          /\ Observe("winsound.Beep", o)
          /\ trace' = Append(trace, CallEvent("winsound.Beep", Tone(sound_type), o))
          /\ IF o = "ok"
               THEN pc' = "done" /\ exc' = exc
               ELSE pc' = "main_except" /\ exc' = Raised("winsound.Beep", o)
    /\ UNCHANGED <<system, sys_argv, fs, sound_type, loop, prev>>

\* Where an error raised in the fallback's try block goes.
FallbackRaise(e) ==
    IF WindowsFallbackCatches(e)
      THEN pc' = "windows_bell" /\ exc' = exc
      ELSE pc' = "main_except" /\ exc' = e

\* the second `import winsound`, in the except ImportError block
play_sound_windows_fallback_import ==
    /\ pc = "windows_fallback"
    /\ \E o \in Outcomes("import winsound (fallback)") :
          /\ Observe("import winsound (fallback)", o)
          /\ trace' = Append(trace, ImportEvent("winsound", o))
          /\ IF o = "ok"
               THEN pc' = "windows_messagebeep" /\ exc' = exc
               ELSE FallbackRaise(Raised("import winsound (fallback)", o))
    /\ UNCHANGED <<system, sys_argv, fs, sound_type, loop, prev>>

\* winsound.MessageBeep()
play_sound_windows_messagebeep ==
    /\ pc = "windows_messagebeep"
    /\ \E o \in Outcomes("winsound.MessageBeep") :
          /\ Observe("winsound.MessageBeep", o)
          /\ trace' = Append(trace, CallEvent("winsound.MessageBeep", <<>>, o))
          /\ IF o = "ok"
               THEN pc' = "done" /\ exc' = exc
               ELSE FallbackRaise(Raised("winsound.MessageBeep", o))
    /\ UNCHANGED <<system, sys_argv, fs, sound_type, loop, prev>>

\* the bell of the bare except
play_sound_windows_bell ==
    /\ pc = "windows_bell"
    /\ trace' = Append(trace, Bell)
    /\ pc' = "done"
    /\ UNCHANGED <<system, sys_argv, env, fs, sound_type, loop, exc, prev>>

-----------------------------------------------------------------------------
(* A second invocation of the script on the same host *)

Finished == pc \in {"done", "crashed"}

\* `if __name__ == '__main__': main()` run once more, with any arguments:
\* a new process, so nothing of the first run is kept but the host.  prev
\* records what the first run was given and did.
Reinvoke ==
    /\ Finished
    /\ prev = <<>>
    /\ prev' = <<[argv |-> sys_argv, trace |-> trace, pc |-> pc]>>
    /\ sys_argv' \in ArgvChoices
    /\ pc' = "main"
    /\ sound_type' = ""
    /\ loop' = NoCandidate
    /\ exc' = "none"
    /\ trace' = <<>>
    /\ UNCHANGED <<system, env, fs>>

-----------------------------------------------------------------------------
(* Specifications *)

Next ==
    \/ main
    \/ unknown_bell
    \/ main_except
    \/ play_sound_macos_afplay
    \/ play_sound_macos_osascript
    \/ play_sound_linux_exists
    \/ play_sound_linux_paplay
    \/ play_sound_linux_aplay
    \/ play_sound_linux_beep
    \/ play_sound_linux_bell
    \/ play_sound_windows_import
    \/ play_sound_windows_beep
    \/ play_sound_windows_fallback_import
    \/ play_sound_windows_messagebeep
    \/ play_sound_windows_bell

\* One invocation of the script.
Spec == Init /\ [][Next]_vars

\* One invocation that is scheduled until it ends: the script is a single
\* sequential process, so a step that can be taken is taken.
FairSpec == Spec /\ WF_vars(Next)

NextTwice == Next \/ Reinvoke

\* Two invocations in sequence on the same host.
SpecTwice == Init /\ [][NextTwice]_vars

-----------------------------------------------------------------------------
(* Vocabulary of the properties *)

\* The sound type the run was given: the first argument, if there is one.
Given == IF Len(sys_argv) < 2 THEN "(none)" ELSE sys_argv[2]

Recognised == system \in {"Darwin", "Linux", "Windows"}

IsBell(e) == e.kind = "print"

IsRunOf(e, prog) == e.kind = "run" /\ e.cmd[1] = prog

IsFilePlayer(e) == IsRunOf(e, "paplay") \/ IsRunOf(e, "aplay")

IsCallOf(e, fac) == e.kind = "call" /\ e.cmd = <<fac>>

\* A sound mechanism was started: a command launched or an API call made.
Started(e) == e.kind \in {"run", "call"} /\ e.result = "ok"

Bells == {i \in DOMAIN trace : IsBell(trace[i])}

Starts == {i \in DOMAIN trace : Started(trace[i])}

\* The candidate paths of the Linux strategy for the given sound type, in
\* the order of the two loops: 'success' has its own file names, every
\* other argument (and none) has those of 'prompt'.
CandidateFiles ==
    IF Given = "success"
      THEN <<"complete.oga", "message.oga", "glass.oga">>
      ELSE <<"dialog-warning.oga", "message-new-instant.oga", "bell.oga">>

CandidateSeq ==
    [k \in 1..(Len(sound_paths) * Len(CandidateFiles)) |->
        Path(sound_paths[((k - 1) \div Len(CandidateFiles)) + 1],
             CandidateFiles[((k - 1) % Len(CandidateFiles)) + 1])]

NoCandidateExists == \A k \in DOMAIN CandidateSeq : fs[CandidateSeq[k]] = "no"

IsFound(e) == e.kind = "exists" /\ e.result = "yes"

\* Both players were missing for the file found at position i of the trace.
BothMissingAt(i) ==
    /\ i + 2 <= Len(trace)
    /\ IsFound(trace[i])
    /\ IsRunOf(trace[i + 1], "paplay") /\ trace[i + 1].result = "missing"
    /\ IsRunOf(trace[i + 2], "aplay") /\ trace[i + 2].result = "missing"

IsPromptArgv(a) == Len(a) >= 2 /\ a[2] = "prompt"

IsDefaultArgv(a) == Len(a) < 2 \/ a[2] \notin {"success", "prompt"}

-----------------------------------------------------------------------------
(* Properties *)

\* C1: on every platform, for every argument and every combination of
\* outcomes of the external steps, main() comes to its end and returns
\* normally: no error of any step leaves main().
C1_MainAlwaysReturns == <>[](pc = "done" /\ exc = "none")

\* C1 witness: a run in which a step raised an error other than a missing
\* executable, and main has returned normally.
C1_Witness ==
    /\ pc = "done" /\ exc = "none"
    /\ \E i \in DOMAIN trace : trace[i].result = "error"

\* C2: the chain of every platform ends in the terminal bell: a finished run
\* in which every attempt before the bell failed for want of its executable,
\* module or file has written the bell.
C2_EveryChainEndsInBell ==
    ( /\ Finished
      /\ \A i \in DOMAIN trace :
            \/ IsBell(trace[i])
            \/ trace[i].result \in {"missing", "no"} )
    => Bells # {}

\* C3: on Linux, when no candidate file of the given sound type exists, no
\* file player is invoked and the beep command is attempted exactly once;
\* with beep missing exactly one bell character is written, without a
\* newline; with beep present no bell character is written.
C3_LinuxNoFile ==
    (system = "Linux" /\ Finished /\ NoCandidateExists)
    => /\ \A i \in DOMAIN trace : ~IsFilePlayer(trace[i])
       /\ Cardinality({i \in DOMAIN trace :
              trace[i].kind = "run"
              /\ trace[i].cmd = <<"beep", "-f", "800", "-l", "100">>}) = 1
       /\ env["beep"] = "missing"
            => /\ Cardinality(Bells) = 1
               /\ \A i \in Bells : trace[i].out = <<"BEL">>
       /\ env["beep"] = "ok" => Bells = {}

\* C3 witness: a Linux run with no candidate file and no beep command has
\* ended with the bell.
C3_Witness ==
    /\ system = "Linux" /\ pc = "done" /\ NoCandidateExists
    /\ env["beep"] = "missing"
    /\ IsBell(trace[Len(trace)])

\* C4 as claimed: on Linux, after the first candidate file found to exist,
\* whatever the availability of the players, the run does nothing but the
\* player attempt on that file: no later probe, no other file handed to a
\* player, no beep command, no bell.
C4_StopsAtFirstFound_AnyPlayers ==
    \A i, j \in DOMAIN trace :
        (system = "Linux" /\ i < j /\ IsFound(trace[i]))
        => IsFilePlayer(trace[j]) /\ trace[j].path = trace[i].path

\* C4 amended: on Linux, after a candidate file found to exist for which
\* paplay or aplay was found, the run does nothing but the player attempt
\* on that file; when both players are missing the enumeration goes on with
\* the next candidate, or with the beep command after the last candidate.
C4_StopsAtFirstFound_UnlessBothMissing ==
    system = "Linux" =>
    /\ \A i, j \in DOMAIN trace :
          (i < j /\ IsFound(trace[i]) /\ ~BothMissingAt(i))
          => /\ IsFilePlayer(trace[j]) /\ trace[j].path = trace[i].path
             /\ j <= i + 2
    /\ \A i \in DOMAIN trace :
          (IsFound(trace[i]) /\ Finished /\ trace[Len(trace)].result # "error")
          => \/ Started(trace[Len(trace)]) /\ Len(trace) <= i + 2
             \/ BothMissingAt(i) /\ Len(trace) >= i + 3
    /\ \A i \in DOMAIN trace, k \in DOMAIN CandidateSeq :
          (BothMissingAt(i) /\ Len(trace) >= i + 3 /\ trace[i].path = CandidateSeq[k])
          => IF k < Len(CandidateSeq)
               THEN /\ trace[i + 3].kind = "exists"
                    /\ trace[i + 3].path = CandidateSeq[k + 1]
               ELSE IsRunOf(trace[i + 3], "beep")

\* C4 witness: a Linux run found a file, paplay was missing, aplay was
\* launched on that file and the run ended there, with candidates left.
C4_Witness ==
    /\ system = "Linux" /\ pc = "done"
    /\ Len(trace) >= 3
    /\ IsFound(trace[Len(trace) - 2])
    /\ IsRunOf(trace[Len(trace)], "aplay") /\ trace[Len(trace)].result = "ok"
    /\ trace[Len(trace)].path # CandidateSeq[Len(CandidateSeq)]

\* C5: on every platform and host, a run given an argument that is neither
\* 'success' nor 'prompt', or no argument, makes exactly the attempts of a
\* run given 'prompt': the same probes, commands, tones and bell, with the
\* same outcomes, and ends the same way.
C5_DefaultIsPrompt ==
    ( /\ prev # <<>>
      /\ Finished
      /\ \/ IsDefaultArgv(prev[1].argv) /\ IsPromptArgv(sys_argv)
         \/ IsPromptArgv(prev[1].argv) /\ IsDefaultArgv(sys_argv) )
    => trace = prev[1].trace /\ pc = prev[1].pc

\* C5 witness: on Linux a run with an unrecognised argument was followed by
\* a run with 'prompt', and both probed files and launched a player.
C5_Witness ==
    /\ prev # <<>> /\ Finished
    /\ system = "Linux"
    /\ prev[1].argv = <<Script, "unknown-garbage">>
    /\ IsPromptArgv(sys_argv)
    /\ Len(trace) >= 3
    /\ Starts # {}

\* C6: on Windows, when the winsound module is unavailable the system
\* notification sound is attempted next (the module is imported again and
\* MessageBeep called), and the bell is written exactly when that attempt
\* fails; when the module is available neither fallback is attempted.
C6_WindowsFallback ==
    (system = "Windows" /\ Finished /\ trace[1].kind = "import")
    => /\ trace[1].result = "missing"
          => /\ Len(trace) >= 2 /\ trace[2].kind = "import"
             /\ trace[2].result = "ok"
                  => Len(trace) >= 3 /\ IsCallOf(trace[3], "winsound.MessageBeep")
             /\ (Bells # {})
                  <=> ~(\E i \in DOMAIN trace :
                          IsCallOf(trace[i], "winsound.MessageBeep")
                          /\ trace[i].result = "ok")
             /\ \A i \in DOMAIN trace : ~IsCallOf(trace[i], "winsound.Beep")
       /\ trace[1].result = "ok"
          => \A i \in DOMAIN trace :
                i > 1 => IsCallOf(trace[i], "winsound.Beep")

\* C6 witness: winsound was unavailable at first, the fallback reached
\* MessageBeep, MessageBeep failed, and the bell was written.
C6_Witness ==
    /\ system = "Windows" /\ pc = "done"
    /\ Len(trace) = 4
    /\ trace[1].result = "missing"
    /\ IsCallOf(trace[3], "winsound.MessageBeep") /\ trace[3].result = "error"
    /\ IsBell(trace[4])

\* C7: on a platform that is none of Darwin, Linux, Windows, the run writes
\* exactly one bell character and does nothing else: no existence check,
\* no command, no audio API call.
C7_UnknownPlatformOnlyBell ==
    ~Recognised
    => /\ \A i \in DOMAIN trace : IsBell(trace[i]) /\ trace[i].out = <<"BEL">>
       /\ Len(trace) <= 1
       /\ Finished => Len(trace) = 1 /\ pc = "done"
       /\ \A fac \in Facilities : env[fac] = "unknown"
       /\ \A p \in LinuxPaths : fs[p] = "unknown"

\* C7 witness: a run on FreeBSD has ended after one bell.
C7_Witness ==
    /\ system = "FreeBSD" /\ pc = "done" /\ Len(trace) = 1 /\ IsBell(trace[1])

\* C8: on Windows with the winsound module available, 'success' requests
\* exactly one tone, of 1000 Hz for 100 ms, and every other sound type
\* (also 'prompt' and no argument) exactly one tone, of 800 Hz for 150 ms.
C8_WindowsTone ==
    (system = "Windows" /\ Finished /\ trace[1].result = "ok")
    => /\ Cardinality({i \in DOMAIN trace : IsCallOf(trace[i], "winsound.Beep")}) = 1
       /\ \A i \in DOMAIN trace :
             IsCallOf(trace[i], "winsound.Beep")
             => trace[i].tone = IF Given = "success" THEN <<1000, 100>>
                                                      ELSE <<800, 150>>

\* C8 witness: a Windows run with an unrecognised argument has requested
\* the 800 Hz, 150 ms tone.
C8_Witness ==
    /\ system = "Windows" /\ pc = "done"
    /\ Given = "unknown-garbage"
    /\ Len(trace) = 2
    /\ IsCallOf(trace[2], "winsound.Beep") /\ trace[2].tone = <<800, 150>>

\* C9: on macOS with 'success', the first external action is the attempt
\* to play /System/Library/Sounds/Hero.aiff with afplay; the osascript beep
\* is invoked only right after that attempt failed for want of afplay.
C9_MacHeroFirst ==
    (system = "Darwin" /\ Given = "success")
    => /\ trace # <<>>
          => /\ IsRunOf(trace[1], "afplay")
             /\ trace[1].cmd = <<"afplay">>
             /\ trace[1].path = Path("/System/Library/Sounds/", "Hero.aiff")
       /\ Finished => trace # <<>>
       /\ \A j \in DOMAIN trace :
             IsRunOf(trace[j], "osascript")
             => j = 2 /\ trace[1].result = "missing"
       /\ \A j \in DOMAIN trace :
             j > 1 => IsRunOf(trace[j], "osascript")

\* C9 witness: a macOS 'success' run has tried afplay, then osascript.
C9_Witness ==
    /\ system = "Darwin" /\ Given = "success" /\ pc = "done"
    /\ Len(trace) = 2
    /\ IsRunOf(trace[2], "osascript")

\* C10: in every run at most one sound mechanism is started, the bell is
\* written at most once, never in a run that started a mechanism, and a
\* started mechanism is the last attempt of the run.
C10_FirstSuccessEndsChain ==
    /\ Cardinality(Starts) <= 1
    /\ Cardinality(Bells) <= 1
    /\ ~(Starts # {} /\ Bells # {})
    /\ \A i \in Starts : i = Len(trace) /\ pc = "done"

\* C10 witness: a Linux run found a file, both players were missing, and the
\* beep command, launched after the last candidate, ended the run.
C10_Witness ==
    /\ pc = "done"
    /\ Cardinality(Starts) = 1
    /\ \E i \in DOMAIN trace : BothMissingAt(i)
    /\ IsRunOf(trace[Len(trace)], "beep")

====
